---- MODULE Spec2Model ----
(***************************************************************************)
(* RegressionGenerator (skmultiflow/data/generators/regression_generator)  *)
(* as a state machine: a regression problem is generated once by           *)
(* make_regression, kept in memory, and fed sequentially by next_instance. *)
(*                                                                         *)
(* Indices are Python's (0-based); the data of an array is kept row-major  *)
(* in a TLA+ sequence (1-based).                                           *)
(***************************************************************************)
EXTENDS Integers, Sequences, FiniteSets, TLC

(* Bounds of the model *)
MaxSamples == 3
MaxFeatures == 2
MaxTargets == 2
MaxBatch == 2
MaxCalls == 3
MaxSeed == 1
Modulus == 3

VARIABLES
    X, y,                     \* self.X, self.y
    num_samples,              \* self.num_samples
    num_features,             \* self.num_features
    num_target_tasks,         \* self.num_target_tasks
    num_informative,          \* self.num_informative
    instance_index,           \* self.instance_index
    current_instance_x,       \* self.current_instance_x
    current_instance_y,       \* self.current_instance_y
    args,                     \* the arguments __init__ was called with
    history,                  \* the next_instance and restart calls made so far
    last_op,                  \* the method called last
    ret                       \* what it returned

vars == <<X, y, num_samples, num_features, num_target_tasks, num_informative,
          instance_index, current_instance_x, current_instance_y,
          args, history, last_op, ret>>

fields == <<X, y, num_samples, num_features, num_target_tasks, num_informative,
            instance_index, current_instance_x, current_instance_y>>

----------------------------------------------------------------------------
(* numpy values *)

None == [kind |-> "None", shape |-> <<>>, data |-> <<>>]

Min(a, b) == IF a < b THEN a ELSE b
Max(a, b) == IF a > b THEN a ELSE b

RECURSIVE Product(_)
Product(s) == IF s = <<>> THEN 1 ELSE Head(s) * Product(Tail(s))

ndarray(shape, data) == [kind |-> "ndarray", shape |-> shape, data |-> data]

(* a.size *)
size(a) == Product(a.shape)

(* np.squeeze(a): the axes of length one are removed, the data is kept *)
squeeze(a) == ndarray(SelectSeq(a.shape, LAMBDA d : d # 1), a.data)

(* a.resize(new_shape), in place: the data is kept in row-major order, cut *)
(* or filled with zeros up to the new size.                                *)
resize(a, new_shape) ==
    ndarray(new_shape,
            [k \in 1..Product(new_shape) |->
                IF k <= Len(a.data) THEN a.data[k] ELSE 0])

(* flatten as a bug would have it: the array is returned as it is *)
flatten_kept_2d(a) == a

(* a.flatten() *)
flatten(a) == ndarray(<<size(a)>>, a.data)

(* slice_bound as a bug would have it: clipped one short of the axis *)
slice_bound_short(i, n) == IF i < 0 THEN Max(i + n, 0) ELSE Min(i, n - 1)

(* The bound of a basic slice on an axis of length n: a negative bound     *)
(* counts from the end, and a bound outside the axis is clipped to it.     *)
slice_bound(i, n) == IF i < 0 THEN Max(i + n, 0) ELSE Min(i, n)

(* IndexError as a bug would have it: a slice past the end raises *)
IndexError_past_end(a, start, stop) == Len(a.shape) < 2 \/ stop > a.shape[1]

(* a[start:stop, :] raises IndexError only when a has fewer than two axes  *)
(* (too many indices); bounds of a slice outside the axis never raise.     *)
IndexError(a, start, stop) == Len(a.shape) < 2

(* a[start:stop, :] of a two-dimensional array *)
row_slice(a, start, stop) ==
    LET n == a.shape[1]
        c == a.shape[2]
        lo == slice_bound(start, n)
        hi == slice_bound(stop, n)
        cnt == Max(hi - lo, 0)
    IN ndarray(<<cnt, c>>, SubSeq(a.data, lo * c + 1, (lo + cnt) * c))

----------------------------------------------------------------------------
(* sklearn.datasets.make_regression: a random regression problem.  The     *)
(* random state is the seed; the targets are a linear combination of the   *)
(* informative features.                                                   *)

Sample(seed, i, j) == (seed * (i + 1) + j) % Modulus

Coef(seed, j, t) == 1 + ((seed + j + t) % 2)

RECURSIVE Target(_, _, _, _)
Target(seed, n_informative, i, t) ==
    IF n_informative = 0 THEN 0
    ELSE (Target(seed, n_informative - 1, i, t)
          + Sample(seed, i, n_informative - 1) * Coef(seed, n_informative - 1, t)) % Modulus

make_regression(n_samples, n_features, n_informative, n_targets, seed) ==
    [X |-> ndarray(<<n_samples, n_features>>,
                   [k \in 1..(n_samples * n_features) |->
                       Sample(seed, (k - 1) \div n_features, (k - 1) % n_features)]),
     y |-> squeeze(ndarray(<<n_samples, n_targets>>,
                   [k \in 1..(n_samples * n_targets) |->
                       Target(seed, n_informative, (k - 1) \div n_targets, (k - 1) % n_targets)]))]

----------------------------------------------------------------------------
(* RegressionGenerator *)

(* __configure as a bug would have it: num_features is set from the       *)
(* number of informative features.                                         *)
configure_informative(n_samples, n_features, n_informative, n_targets, seed) ==
    LET Xy == make_regression(n_samples, n_features, n_informative, n_targets, seed)
    IN [X |-> Xy.X,
        y |-> resize(Xy.y, <<size(Xy.y), n_targets>>),
        num_samples |-> n_samples,
        num_features |-> n_informative,
        num_target_tasks |-> n_targets,
        num_informative |-> n_informative]

(* __configure: the fields it assigns.  For n_targets >= 2 the resize      *)
(* enlarges y to y.size rows (numpy raises ValueError instead when y does  *)
(* not own its data, and then no generator is constructed).                *)
configure(n_samples, n_features, n_informative, n_targets, seed) ==
    LET Xy == make_regression(n_samples, n_features, n_informative, n_targets, seed)
    IN [X |-> Xy.X,
        y |-> resize(Xy.y, <<size(Xy.y), n_targets>>),
        num_samples |-> n_samples,
        num_features |-> n_features,
        num_target_tasks |-> n_targets,
        num_informative |-> n_informative]

(* __init__ *)
init(n_samples, n_features, n_informative, n_targets, seed) ==
    LET c == configure(n_samples, n_features, n_informative, n_targets, seed)
    IN /\ X = c.X
       /\ y = c.y
       /\ num_samples = c.num_samples
       /\ num_features = c.num_features
       /\ num_target_tasks = c.num_target_tasks
       /\ num_informative = c.num_informative
       /\ instance_index = 0
       /\ current_instance_y = None
       /\ current_instance_x = None
       /\ args = [n_samples |-> n_samples, n_features |-> n_features,
                  n_informative |-> n_informative, n_targets |-> n_targets]
       /\ history = <<>>
       /\ last_op = "__init__"
       /\ ret = None

Init ==
    \E n_samples \in 1..MaxSamples, n_features \in 1..MaxFeatures,
       n_targets \in 1..MaxTargets, seed \in 0..MaxSeed :
        \E n_informative \in 1..n_features :
            init(n_samples, n_features, n_informative, n_targets, seed)

estimated_remaining_instances == num_samples - instance_index

(* has_more_instances as a bug would have it: >= for > *)
has_more_instances_inclusive == num_samples - instance_index >= 0

has_more_instances == num_samples - instance_index > 0

(* advance as a bug would have it: the cursor stops at the end of the data *)
advance_clamped(index, batch_size) == Min(index + batch_size, num_samples)

(* self.instance_index += batch_size, with no test against num_samples *)
advance(index, batch_size) == index + batch_size

(* The values next_instance(batch_size) leaves in instance_index,          *)
(* current_instance_x and current_instance_y.                              *)
next_instance_result(batch_size) ==
    LET index == advance(instance_index, batch_size)
        raised_x == IndexError(X, index - batch_size, index)
        raised_y == IndexError(y, index - batch_size, index)
        sliced_y == row_slice(y, index - batch_size, index)
    IN [instance_index |-> index,
        current_instance_x |->
            IF raised_x \/ raised_y THEN None
            ELSE row_slice(X, index - batch_size, index),
        current_instance_y |->
            IF raised_x \/ raised_y THEN None
            ELSE IF num_target_tasks < 2 THEN flatten(sliced_y) ELSE sliced_y]

Call(op, batch_size, start, x, yy) ==
    [op |-> op, batch_size |-> batch_size, start |-> start, x |-> x, y |-> yy]

next_instance(batch_size) ==
    LET r == next_instance_result(batch_size)
    IN /\ Len(history) < MaxCalls
       /\ instance_index' = r.instance_index
       /\ current_instance_x' = r.current_instance_x
       /\ current_instance_y' = r.current_instance_y
       /\ ret' = <<r.current_instance_x, r.current_instance_y>>
       /\ last_op' = "next_instance"
       /\ history' = Append(history,
              Call("next_instance", batch_size, instance_index,
                   r.current_instance_x, r.current_instance_y))
       /\ UNCHANGED <<X, y, num_samples, num_features, num_target_tasks,
                      num_informative, args>>

NextInstance == \E batch_size \in 0..MaxBatch : next_instance(batch_size)

(* restart: its body is `pass` *)
restart ==
    /\ Len(history) < MaxCalls
    /\ ret' = None
    /\ last_op' = "restart"
    /\ history' = Append(history, Call("restart", 0, instance_index, None, None))
    /\ UNCHANGED <<fields, args>>

(* get_last_instance as a bug would have it: the stored batch is consumed *)
get_last_instance_consuming ==
    /\ ret' = <<current_instance_x, current_instance_y>>
    /\ last_op' = "get_last_instance"
    /\ current_instance_x' = None
    /\ current_instance_y' = None
    /\ UNCHANGED <<X, y, num_samples, num_features, num_target_tasks,
                   num_informative, instance_index, args, history>>

get_last_instance ==
    /\ ret' = <<current_instance_x, current_instance_y>>
    /\ last_op' = "get_last_instance"
    /\ UNCHANGED <<fields, args, history>>

(* get_num_attributes and get_num_targets: they return a field *)
get_num_attributes == num_features

get_num_targets == num_target_tasks

(* sorted(S): the values of S in increasing order *)
RECURSIVE sorted(_)
sorted(S) ==
    IF S = {} THEN <<>>
    ELSE LET m == CHOOSE v \in S : \A w \in S : v <= w
         IN <<m>> \o sorted(S \ {m})

(* np.unique(a): the sorted distinct values of a, in a new array *)
unique(a) ==
    LET S == {a.data[k] : k \in 1..Len(a.data)}
    IN ndarray(<<Cardinality(S)>>, sorted(S))

(* str(n) of a natural number *)
Digit(d) == <<"0", "1", "2", "3", "4", "5", "6", "7", "8", "9">>[d + 1]

RECURSIVE str(_)
str(n) == IF n < 10 THEN Digit(n) ELSE str(n \div 10) \o Digit(n % 10)

(* get_classes as a bug would have it: y is flattened in place first *)
get_classes_in_place ==
    /\ y' = flatten(y)
    /\ ret' = unique(y)
    /\ last_op' = "get_classes"
    /\ UNCHANGED <<X, num_samples, num_features, num_target_tasks,
                   num_informative, instance_index, current_instance_x,
                   current_instance_y, args, history>>

get_classes ==
    /\ ret' = unique(y)
    /\ last_op' = "get_classes"
    /\ UNCHANGED <<fields, args, history>>

get_info ==
    /\ ret' = "RegressionGenerator: n_samples: " \o str(num_samples)
              \o " - n_features: " \o str(num_features)
              \o " - n_informative: " \o str(num_informative)
              \o " - n_targets: " \o str(num_target_tasks)
    /\ last_op' = "get_info"
    /\ UNCHANGED <<fields, args, history>>

Next ==
    \/ NextInstance
    \/ restart
    \/ get_last_instance
    \/ get_classes
    \/ get_info

Spec == Init /\ [][Next]_vars

----------------------------------------------------------------------------
(* Properties *)

LastCall == history[Len(history)]

NextCalls == {i \in 1..Len(history) : history[i].op = "next_instance"}

Restarts == {i \in 1..Len(history) : history[i].op = "restart"}

(* The call went past the end of the data *)
Overran(c) == c.op = "next_instance" /\ c.start + c.batch_size > num_samples

(* Nothing but next_instance(1) has been called on the data since __init__ *)
UnitCallsOnly ==
    \A i \in 1..Len(history) :
        history[i].op = "next_instance" /\ history[i].batch_size = 1

(* Row i (0-based) of the two-dimensional array a *)
Row(a, i) == [j \in 1..a.shape[2] |-> a.data[i * a.shape[2] + j]]

(* C1: the cursor stays within 0..num_samples in every reachable state. *)
C1_CursorWithinSamples ==
    0 <= instance_index /\ instance_index <= num_samples

(* C2: right after restart() the cursor is 0, the estimated remaining      *)
(* instances are num_samples again and has_more_instances() is true.       *)
C2_RestartResetsCursor ==
    last_op = "restart" =>
        /\ instance_index = 0
        /\ estimated_remaining_instances = num_samples
        /\ has_more_instances

(* C3, as claimed: a next_instance call that goes past the end of the data *)
(* returns an empty pair (None or no rows at all) for the whole batch.     *)
IsEmpty(v) == v = None \/ v.data = <<>>

C3_OverrunReturnsEmpty ==
    last_op = "next_instance" /\ Overran(LastCall) =>
        IsEmpty(ret[1]) /\ IsEmpty(ret[2])

(* C3, amended: a next_instance call that goes past the end of the data    *)
(* never takes the IndexError path; it returns exactly the feature rows    *)
(* from the previous cursor to the end of the data, and targets that start *)
(* with the targets of those same rows.                                    *)
C3_OverrunReturnsTruncatedSlice ==
    last_op = "next_instance" /\ Overran(LastCall) =>
        LET c == LastCall
            left == Max(num_samples - c.start, 0)
        IN /\ ret[1] # None
           /\ ret[2] # None
           /\ ret[1].shape = <<left, num_features>>
           /\ ret[1].data = [k \in 1..(left * num_features) |->
                                 X.data[c.start * num_features + k]]
           /\ Len(ret[2].data) >= left * num_target_tasks
           /\ \A k \in 1..(left * num_target_tasks) :
                  ret[2].data[k] = y.data[c.start * num_target_tasks + k]

C3_Witness ==
    /\ last_op = "next_instance"
    /\ Overran(LastCall)
    /\ LastCall.start > 0
    /\ LastCall.start < num_samples
    /\ ret[1].shape[1] = num_samples - LastCall.start

(* C4: k calls of next_instance(1) on a fresh generator return rows        *)
(* 0, 1, ..., k-1 in that order (k <= num_samples); has_more_instances()   *)
(* is true before each of the first num_samples calls and false after the  *)
(* last of them.                                                           *)
C4_UnitBatchesVisitEveryRowInOrder ==
    UnitCallsOnly /\ Len(history) <= num_samples =>
        /\ \A i \in 1..Len(history) :
              /\ history[i].x.shape = <<1, num_features>>
              /\ history[i].x.data = Row(X, i - 1)
              /\ history[i].y.data = Row(y, i - 1)
        /\ has_more_instances <=> Len(history) < num_samples

C4_Witness ==
    /\ UnitCallsOnly
    /\ num_samples >= 3
    /\ Len(history) = num_samples
    /\ ~has_more_instances
    /\ \A i, j \in 1..Len(history) : i # j => history[i].x # history[j].x

(* C5: has_more_instances() is true exactly when                           *)
(* estimated_remaining_instances() is positive, and the latter is          *)
(* num_samples less the cursor.                                            *)
C5_HasMoreIffRemainingPositive ==
    /\ has_more_instances <=> estimated_remaining_instances > 0
    /\ estimated_remaining_instances + instance_index = num_samples

C5_Witness ==
    /\ ~has_more_instances
    /\ estimated_remaining_instances < 0
    /\ \E i \in NextCalls : history[i].start < num_samples /\ history[i].start > 0

(* C6: every next_instance(batch_size) moves the cursor forward by exactly *)
(* batch_size, also when it goes past the end of the data, so a later      *)
(* next_instance never starts before the end of an earlier one.            *)
C6_CursorAdvancesByBatchSize ==
    /\ history # <<>> /\ LastCall.op = "next_instance" =>
          /\ instance_index = LastCall.start + LastCall.batch_size
          /\ estimated_remaining_instances =
                 (num_samples - LastCall.start) - LastCall.batch_size
    /\ \A i, j \in NextCalls :
          i < j => history[j].start >= history[i].start + history[i].batch_size

C6_Witness ==
    /\ last_op = "next_instance"
    /\ Overran(LastCall)
    /\ LastCall.start < num_samples
    /\ instance_index = LastCall.start + LastCall.batch_size
    /\ instance_index > num_samples

(* The shapes of a batch of batch_size samples *)
FullBatch(c) ==
    /\ c.x.shape = <<c.batch_size, num_features>>
    /\ Len(c.x.data) = c.batch_size * num_features
    /\ Len(c.y.data) = c.batch_size * num_target_tasks
    /\ c.y.shape = IF num_target_tasks = 1 THEN <<c.batch_size>>
                   ELSE <<c.batch_size, num_target_tasks>>

(* C7, as claimed: every next_instance(batch_size) returns batch_size      *)
(* feature rows and batch_size targets, 1-D for one target task and        *)
(* (batch_size, num_target_tasks) for more.                                *)
C7_EveryBatchIsFull ==
    \A i \in NextCalls : FullBatch(history[i])

(* C7, amended: this holds of every next_instance(batch_size) that does    *)
(* not go past the end of the data.                                        *)
C7_BatchWithinDataIsFull ==
    \A i \in NextCalls : ~Overran(history[i]) => FullBatch(history[i])

C7_Witness ==
    /\ last_op = "next_instance"
    /\ ~Overran(LastCall)
    /\ LastCall.batch_size = 2
    /\ LastCall.start > 0
    /\ num_target_tasks = 1
    /\ ret[2].shape = <<2>>

(* The calls from __init__ up to the first restart, and the calls since    *)
(* the last restart.                                                       *)
Maximum(S) == CHOOSE m \in S : \A k \in S : k <= m
Minimum(S) == CHOOSE m \in S : \A k \in S : k >= m

FirstPass == SubSeq(history, 1, Minimum(Restarts) - 1)
LastPass == SubSeq(history, Maximum(Restarts) + 1, Len(history))

(* C8: after restart(), next_instance calls with the batch sizes of the    *)
(* first pass return what the first pass returned.                         *)
C8_RestartReplaysTheData ==
    Restarts # {} =>
        \A i \in 1..Len(LastPass) :
            (/\ i <= Len(FirstPass)
             /\ \A k \in 1..i : FirstPass[k].batch_size = LastPass[k].batch_size)
            => /\ LastPass[i].x = FirstPass[i].x
               /\ LastPass[i].y = FirstPass[i].y

(* C9: get_last_instance() returns the pair the latest next_instance       *)
(* returned and changes no field of the generator.                         *)
C9_GetLastInstanceReturnsLastBatch ==
    [][last_op' = "get_last_instance" =>
          /\ UNCHANGED fields
          /\ ret' = <<current_instance_x, current_instance_y>>
          /\ NextCalls # {} =>
                 ret' = <<history[Maximum(NextCalls)].x, history[Maximum(NextCalls)].y>>]_vars

C9_Witness ==
    /\ last_op = "get_last_instance"
    /\ NextCalls # {}
    /\ Restarts # {}
    /\ ret[1] # None
    /\ ret[1].data # <<>>
    /\ ret = <<history[Maximum(NextCalls)].x, history[Maximum(NextCalls)].y>>

(* C10: get_num_attributes() is the n_features and get_num_targets() the   *)
(* n_targets the generator was constructed with, whatever was called since. *)
C10_CountsAreTheRequestedOnes ==
    /\ get_num_attributes = args.n_features
    /\ get_num_targets = args.n_targets

C10_Witness ==
    /\ last_op = "get_last_instance"
    /\ get_num_attributes = 2
    /\ args.n_informative = 1
    /\ args.n_targets = 2
    /\ NextCalls # {}
    /\ Restarts # {}

(* The number of rows of a returned feature block and of a returned target *)
(* block (flattened or not).                                               *)
RowsOfX(c) == IF c.x = None THEN 0 ELSE c.x.shape[1]
RowsOfY(c) == IF c.y = None THEN 0 ELSE Len(c.y.data) \div num_target_tasks

NextInstanceStep ==
    Len(history') = Len(history) + 1 /\ history'[Len(history')].op = "next_instance"

RestartStep ==
    Len(history') = Len(history) + 1 /\ history'[Len(history')].op = "restart"

(* C12: next_instance never moves the cursor back and never makes          *)
(* has_more_instances() true once it is false; restart() brings the        *)
(* generator back to its initial state, the cursor at 0 with instances     *)
(* left.                                                                   *)
C12_ExhaustedUntilRestart ==
    [][/\ NextInstanceStep =>
              /\ instance_index' >= instance_index
              /\ ~has_more_instances => ~has_more_instances'
       /\ RestartStep =>
              /\ instance_index' = 0
              /\ has_more_instances']_vars

(* A step that is a call of a method that only returns a value *)
QueryStep == last_op' \in {"get_last_instance", "get_classes", "get_info"}

(* C13, as claimed: no step changes X, y or num_samples; next_instance     *)
(* changes the cursor and no other field; get_last_instance, get_classes   *)
(* and get_info change no field.                                           *)
C13_OnlyTheCursorMutates ==
    [][/\ UNCHANGED <<X, y, num_samples>>
       /\ NextInstanceStep =>
              UNCHANGED <<X, y, num_samples, num_features, num_target_tasks,
                          num_informative, current_instance_x, current_instance_y>>
       /\ RestartStep => UNCHANGED <<X, y, num_samples>>
       /\ QueryStep => UNCHANGED fields]_vars

(* C13, amended: no step changes X, y or num_samples; next_instance        *)
(* changes the cursor and the stored last batch (current_instance_x and    *)
(* current_instance_y) and no other field; get_last_instance, get_classes  *)
(* and get_info change no field.                                           *)
C13_OnlyCursorAndLastBatchMutate ==
    [][/\ UNCHANGED <<X, y, num_samples>>
       /\ NextInstanceStep =>
              UNCHANGED <<X, y, num_samples, num_features, num_target_tasks,
                          num_informative>>
       /\ RestartStep => UNCHANGED <<X, y, num_samples>>
       /\ QueryStep => UNCHANGED fields]_vars

C13_Witness ==
    /\ last_op = "get_classes"
    /\ ret.data # <<>>
    /\ NextCalls # {}
    /\ instance_index > 0
    /\ current_instance_x # None
    /\ current_instance_x.data # <<>>

(* The call started at or after the end of the data, for one sample or more *)
AfterExhaustion(c) ==
    c.op = "next_instance" /\ c.start >= num_samples /\ c.batch_size >= 1

====
